---- MODULE Spec2Model ----
(***************************************************************************)
(* A model of gdt-kube's assertion evaluator (assertions.OK and its        *)
(* checks), the structural comparator used by assert.matches               *)
(* (collectFieldDifferences) and the runners that drive them (runGet's     *)
(* backoff poll loop, runCreate, runApply, runDelete).                     *)
(*                                                                         *)
(* Go values are modelled as tagged records.  A Go string is a sequence of *)
(* one-character strings, so that strings.Contains, strconv.Atoi and       *)
(* strconv.Itoa are computed rather than assumed.  A Go pointer or         *)
(* optional field is a sequence of length 0 (nil) or 1.                    *)
(***************************************************************************)
EXTENDS Integers, Sequences, FiniteSets, TLC

VARIABLES
    ev,        \* the assertions object under evaluation (EvalSpec)
    evin,      \* the arguments newAssertions was called with (EvalSpec)
    evpc,      \* position inside assertions.OK (EvalSpec)
    evok,      \* OK()'s return value once evpc = "done" (EvalSpec)
    evhanded   \* what jsonOK handed to the payload engine, if it ran

evvars == <<ev, evin, evpc, evok, evhanded>>

VARIABLES
    cmpin,     \* the arguments of one comparator call (CompareSpec)
    cmpout     \* the delta the call left behind, once it has returned

cmpvars == <<cmpin, cmpout>>

VARIABLES
    errin,     \* the constructor of errors.go called and its argument (ErrSpec)
    errout     \* the error it returned, once it has returned

errvars == <<errin, errout>>

VARIABLES
    kube,      \* the test spec: s.Kube, its assertions and the ctx deadline
    pc,        \* where Run is: "start", "poll", "attempt", "objs", "done", ...
    asserts,   \* the assertions object the runner holds (its variable a)
    last,      \* the outcome of the last remote call and OK()'s answer for it
    reported,  \* the failures passed to t.Error, in order
    calls,     \* the remote calls made, in order
    ticker,    \* the backoff ticker's goroutine
    now,       \* the clock, in seconds
    deadline,  \* the deadline of the ctx the poll loop runs under
    attempts,  \* runGet's attempts counter
    success,   \* runGet's success variable of line 454
    idx,       \* the next object of the manifest
    gvr,       \* the last kind resolution: its error, its evaluation's answer
    ret        \* what the run function returned

runvars ==
    <<kube, pc, asserts, last, reported, calls, ticker, now, deadline, attempts,
      success, idx, gvr, ret>>

vars == <<evvars, cmpvars, errvars, runvars>>

----------------------------------------------------------------------------
(* Bounds of the model.                                                    *)

\* the longest list a List() call returns
MaxItems == 2

\* the most objects a manifest holds
MaxObjs == 2

\* the last second the clock reaches
MaxTime == 6

\* the longest backoff interval, in seconds
MaxInterval == 2

----------------------------------------------------------------------------
(* Errors (part_000 lines 183-225, errors.go).                             *)

\* net/http StatusNotFound
StatusNotFound == 404

\* the status codes a StatusError carries in the model
StatusCodes == {StatusNotFound, 500}

NilErr == [kind |-> "nil"]

\* errors.go ResourceUnknown(gvk): wraps ErrResourceUnknown
ResourceUnknown == [kind |-> "ResourceUnknown"]

\* *apierrors.StatusError with ErrStatus.Code = c
StatusError(c) == [kind |-> "StatusError", code |-> c]

\* any other error, with its Error() text
OtherError(m) == [kind |-> "other", msg |-> m]

\* errors.Is(err, ErrResourceUnknown)
IsResourceUnknown(err) == err.kind = "ResourceUnknown"

\* err.(*apierrors.StatusError) succeeded
IsStatusError(err) == err.kind = "StatusError"

\* err.Error() of the errors that can reach strings.Contains
ErrorText(err) == IF err.kind = "other" THEN err.msg ELSE <<>>

\* strings.Contains(s, sub)
Contains(s, sub) ==
    \E i \in 0..(Len(s) - Len(sub)) : SubSeq(s, i + 1, i + Len(sub)) = sub

----------------------------------------------------------------------------
(* Failures recorded by Fail().                                            *)

UnexpectedError(err) == [f |-> "UnexpectedError", err |-> err]
ErrorFailure(err) == [f |-> "error", err |-> err]
ExpectedNotFound(code) == [f |-> "ExpectedNotFound", code |-> code]
NotIn(msg, sub) == [f |-> "NotIn", msg |-> msg, sub |-> sub]
NotEqualLength(exp, got) == [f |-> "NotEqualLength", exp |-> exp, got |-> got]
MatchesNotEqual(diff) == [f |-> "MatchesNotEqual", diff |-> diff]

----------------------------------------------------------------------------
(* Documents: the values yaml.Unmarshal and unstructured.Unstructured hold *)
(* (gate-tests.yml lines 118-398 is the comparator's Go source).           *)

SignedKinds == {"int", "int8", "int16", "int32", "int64"}
UnsignedKinds == {"uint", "uint8", "uint16", "uint32", "uint64"}

MapDoc(m) == [t |-> "map", m |-> m]
SliceDoc(l) == [t |-> "slice", l |-> l]
IntDoc(w, i) == [t |-> "int", w |-> w, i |-> i]
UintDoc(w, i) == [t |-> "uint", w |-> w, i |-> i]
StrDoc(s) == [t |-> "string", s |-> s]
BoolDoc(b) == [t |-> "bool", b |-> b]
NilDoc == [t |-> "nil"]

\* the dynamic Go type of a document value (%T); reflect.Kind coincides with
\* it for every value of the model
GoType(d) == IF d.t \in {"int", "uint"} THEN d.w ELSE d.t

\* the key universe, and the orders in which Go may range over a map
Keys == {"a", "b"}
KeyOrders == {<<"a", "b">>, <<"b", "a">>}

Digits == <<"0", "1", "2", "3", "4", "5", "6", "7", "8", "9">>

DigitValue(c) == CHOOSE n \in 0..9 : Digits[n + 1] = c

IsDigit(c) == \E n \in 1..10 : Digits[n] = c

RECURSIVE DigitsValue(_)
DigitsValue(s) ==
    IF s = <<>> THEN 0
    ELSE 10 * DigitsValue(SubSeq(s, 1, Len(s) - 1)) + DigitValue(s[Len(s)])

\* strconv.Atoi: an optional sign, then one or more decimal digits
Atoi(s) ==
    LET signed == s # <<>> /\ s[1] \in {"+", "-"}
        body == IF signed THEN Tail(s) ELSE s
    IN IF body = <<>> \/ \E n \in 1..Len(body) : ~IsDigit(body[n])
       THEN [err |-> TRUE, v |-> 0]
       ELSE [err |-> FALSE,
             v |-> IF signed /\ s[1] = "-" THEN 0 - DigitsValue(body)
                   ELSE DigitsValue(body)]

RECURSIVE NatDigits(_)
NatDigits(n) ==
    IF n < 10 THEN <<Digits[n + 1]>>
    ELSE Append(NatDigits(n \div 10), Digits[(n % 10) + 1])

\* strconv.Itoa
Itoa(i) == IF i < 0 THEN <<"-">> \o NatDigits(0 - i) ELSE NatDigits(i)

\* toUint64: the value of an unsigned integer, 0 for anything else
toUint64(v) == IF v.t = "uint" THEN v.i ELSE 0

\* toInt64: the value of a signed integer, 0 for anything else
toInt64(v) == IF v.t = "int" THEN v.i ELSE 0

\* a slip in typesComparable line 363: kinds outside the case lists are never
\* comparable
typesComparableListedOnly(a, b) ==
    LET at == GoType(a)
        bt == GoType(b)
        ints == {"int", "int8", "int32", "int64"}
        uints == {"uint", "uint8", "uint32", "uint64"}
    IN CASE at \in ints -> bt \in ints \cup {"string"}
         [] at \in uints -> bt \in uints \cup {"string"}
         [] at = "string" -> bt \in ints \cup uints \cup {"string"}
         [] OTHER -> FALSE

\* typesComparable: on reflect.Kind; Int16 and Uint16 are not listed in
\* the source's case lists and fall through to type identity.  No document of
\* the model is a complex number.
typesComparable(a, b) ==
    LET at == GoType(a)
        bt == GoType(b)
        ints == {"int", "int8", "int32", "int64"}
        uints == {"uint", "uint8", "uint32", "uint64"}
    IN CASE at \in ints -> bt \in ints \cup {"string"}
         [] at \in uints -> bt \in uints \cup {"string"}
         [] at = "string" -> bt \in ints \cup uints \cup {"string"}
         [] OTHER -> at = bt

Diff(fp, d) == [fp |-> fp, d |-> d]

NoDelta == [differences |-> <<>>, panic |-> FALSE]

\* delta.Add
Add(delta, diff) == [delta EXCEPT !.differences = Append(@, diff)]

DifferentValues(fp, delta) == Add(delta, Diff(fp, "had different values"))

\* collectFieldDifferences for the scalar cases (lines 243-319)
collectScalarDifferences(fp, match, subject, delta) ==
    CASE match.t = "int" ->
           CASE subject.t = "int" ->
                  IF toInt64(match) # toInt64(subject)
                  THEN DifferentValues(fp, delta) ELSE delta
             [] subject.t = "uint" ->
                  IF toUint64(match) # toUint64(subject)
                  THEN DifferentValues(fp, delta) ELSE delta
             [] subject.t = "string" ->
                  LET sv == Atoi(subject.s)
                  IN IF sv.err \/ toInt64(match) # sv.v
                     THEN DifferentValues(fp, delta) ELSE delta
             [] OTHER -> delta
      [] match.t = "string" ->
           CASE subject.t \in {"int", "uint"} ->
                  \* si := subject.(int) panics for every other width
                  IF GoType(subject) # "int"
                  THEN [delta EXCEPT !.panic = TRUE]
                  ELSE IF match.s # Itoa(subject.i)
                       THEN DifferentValues(fp, delta) ELSE delta
             [] subject.t = "string" ->
                  IF match.s # subject.s
                  THEN DifferentValues(fp, delta) ELSE delta
             [] OTHER -> delta
      [] OTHER ->
           \* reflect.DeepEqual
           IF match # subject THEN DifferentValues(fp, delta) ELSE delta

RECURSIVE collectFieldDifferences(_, _, _, _, _)
RECURSIVE collectMapDifferences(_, _, _, _, _, _)
RECURSIVE collectSliceDifferences(_, _, _, _, _, _)

\* a slip in collectFieldDifferences lines 214-224: the loop ends at the first
\* key that adds a difference
collectMapDifferencesStopsAtFirst(fp, keys, match, subject, delta, ord) ==
    IF keys = <<>> \/ delta.panic \/ delta.differences # <<>> THEN delta
    ELSE LET matchk == Head(keys)
             newfp == Append(fp, [key |-> matchk])
             d == IF matchk \notin DOMAIN subject.m
                  THEN Add(delta, Diff(newfp, "not present in subject"))
                  ELSE collectFieldDifferences(
                           newfp, match.m[matchk], subject.m[matchk],
                           delta, ord)
         IN collectMapDifferences(fp, Tail(keys), match, subject, d, ord)

\* a slip in collectFieldDifferences lines 214-224: after the loop a subject
\* key that the match lacks is reported
collectMapDifferencesBothWays(fp, keys, match, subject, delta, ord) ==
    IF delta.panic THEN delta
    ELSE IF keys = <<>>
         THEN IF DOMAIN subject.m \subseteq DOMAIN match.m THEN delta
              ELSE Add(delta, Diff(fp, "not present in match"))
         ELSE LET matchk == Head(keys)
                  newfp == Append(fp, [key |-> matchk])
                  d == IF matchk \notin DOMAIN subject.m
                       THEN Add(delta, Diff(newfp, "not present in subject"))
                       ELSE collectFieldDifferences(
                                newfp, match.m[matchk], subject.m[matchk],
                                delta, ord)
              IN collectMapDifferences(fp, Tail(keys), match, subject, d, ord)

\* the body of `for matchk, matchv := range matchmap`, over the keys not yet
\* visited, in the order the map yields them
collectMapDifferences(fp, keys, match, subject, delta, ord) ==
    IF keys = <<>> \/ delta.panic THEN delta
    ELSE LET matchk == Head(keys)
             newfp == Append(fp, [key |-> matchk])
             d == IF matchk \notin DOMAIN subject.m
                  THEN Add(delta, Diff(newfp, "not present in subject"))
                  ELSE collectFieldDifferences(
                           newfp, match.m[matchk], subject.m[matchk],
                           delta, ord)
         IN collectMapDifferences(fp, Tail(keys), match, subject, d, ord)

\* the body of `for x, matchv := range matchlist`, from index x on
collectSliceDifferences(fp, x, match, subject, delta, ord) ==
    IF x > Len(match.l) \/ delta.panic THEN delta
    ELSE collectSliceDifferences(
             fp, x + 1, match, subject,
             collectFieldDifferences(
                 Append(fp, [idx |-> x - 1]), match.l[x], subject.l[x],
                 delta, ord),
             ord)

\* a slip in collectFieldDifferences lines 227-235: after the length
\* difference the elements both slices have are compared
collectFieldDifferencesComparesPrefix(fp, match, subject, delta, ord) ==
    IF ~typesComparable(match, subject)
    THEN Add(delta, Diff(fp, "non-comparable types"))
    ELSE CASE match.t = "map" ->
                collectMapDifferences(
                    fp, SelectSeq(ord, LAMBDA k : k \in DOMAIN match.m),
                    match, subject, delta, ord)
           [] match.t = "slice" ->
                IF Len(match.l) # Len(subject.l)
                THEN LET n == IF Len(match.l) < Len(subject.l)
                              THEN Len(match.l) ELSE Len(subject.l)
                     IN collectSliceDifferences(
                            fp, 1, SliceDoc(SubSeq(match.l, 1, n)), subject,
                            Add(delta, Diff(fp, "had different lengths")),
                            ord)
                ELSE collectSliceDifferences(fp, 1, match, subject, delta, ord)
           [] OTHER -> collectScalarDifferences(fp, match, subject, delta)

\* a slip in collectFieldDifferences lines 202-209: values of non-comparable
\* types are passed over without a difference
collectFieldDifferencesSkipsIncomparable(fp, match, subject, delta, ord) ==
    IF ~typesComparable(match, subject)
    THEN delta
    ELSE CASE match.t = "map" ->
                collectMapDifferences(
                    fp, SelectSeq(ord, LAMBDA k : k \in DOMAIN match.m),
                    match, subject, delta, ord)
           [] match.t = "slice" ->
                IF Len(match.l) # Len(subject.l)
                THEN Add(delta, Diff(fp, "had different lengths"))
                ELSE collectSliceDifferences(fp, 1, match, subject, delta, ord)
           [] OTHER -> collectScalarDifferences(fp, match, subject, delta)

\* collectFieldDifferences(fp, match, subject, delta); ord is the order in
\* which ranging over a map yields its keys
collectFieldDifferences(fp, match, subject, delta, ord) ==
    IF ~typesComparable(match, subject)
    THEN Add(delta, Diff(fp, "non-comparable types"))
    ELSE CASE match.t = "map" ->
                collectMapDifferences(
                    fp, SelectSeq(ord, LAMBDA k : k \in DOMAIN match.m),
                    match, subject, delta, ord)
           [] match.t = "slice" ->
                IF Len(match.l) # Len(subject.l)
                THEN Add(delta, Diff(fp, "had different lengths"))
                ELSE collectSliceDifferences(fp, 1, match, subject, delta, ord)
           [] OTHER -> collectScalarDifferences(fp, match, subject, delta)

\* compareResourceToMatchObject(res, match): the field path starts at "$"
compareResourceToMatchObject(res, match, ord) ==
    collectFieldDifferences(<<>>, match, res, NoDelta, ord)

----------------------------------------------------------------------------
(* Expectations, subjects and the assertions object (part_000).            *)

\* an Expect value; Len, Matches and JSON are nil (<<>>) or hold one value
Expect(error, len, notFound, unknown, matches, json) ==
    [Error |-> error, Len |-> len, NotFound |-> notFound,
     Unknown |-> unknown, Matches |-> matches, JSON |-> json]

\* r: the untyped nil interface that newAssertions(exp, err, nil) stores
NilSubject == [t |-> "nil"]

\* r: a (*unstructured.Unstructured)(nil), as the client returns with an error
NilUnstructured == [t |-> "Unstructured", ptr |-> <<>>]

\* r: a non-nil *unstructured.Unstructured whose Object is obj
Unstructured(obj) == [t |-> "Unstructured", ptr |-> <<obj>>]

\* r: a (*unstructured.UnstructuredList)(nil)
NilUnstructuredList == [t |-> "UnstructuredList", ptr |-> <<>>]

\* r: a non-nil *unstructured.UnstructuredList with the given Items
UnstructuredList(items) == [t |-> "UnstructuredList", ptr |-> <<items>>]

\* a.r != nil: true of every typed pointer, even a nil one
SubjectNotNil(r) == r.t # "nil"

\* newAssertions(exp, err, r)
newAssertions(exp, err, r) ==
    [failures |-> <<>>, terminal |-> FALSE, exp |-> exp, err |-> err, r |-> r]

\* Fail appends an error to the failures
Fail(a, err) == [a EXCEPT !.failures = Append(@, err)]

\* what one check of OK() leaves behind: the assertions object, the check's
\* return value, whether the process panicked, and what was handed to the
\* payload engine (<<>> when it was not called)
Ret(a, ok) == [a |-> a, ok |-> ok, panic |-> FALSE, handed |-> <<>>]

\* a slip in expectsNotFound line 229: len: 0 is not taken to expect absence
expectsNotFoundFlagOnly(a) == a.exp[1].NotFound

\* expectsNotFound
expectsNotFound(a) ==
    LET exp == a.exp[1]
    IN (exp.Len # <<>> /\ exp.Len[1] = 0) \/ exp.NotFound

\* hasSubject
hasSubject(a) ==
    /\ a.r.t \in {"Unstructured", "UnstructuredList"}
    /\ a.r.ptr # <<>>

\* a slip in errorOK lines 185-191: exp.Unknown is not consulted
errorOKUnknownAlwaysFails(a) ==
    IF a.err # NilErr /\ IsResourceUnknown(a.err)
    THEN Ret([Fail(a, ErrorFailure(a.err)) EXCEPT !.terminal = TRUE], FALSE)
    ELSE Ret(a, TRUE)

\* errorOK lines 184-192: an unknown-kind error fails terminally unless it is
\* expected, and is swallowed when it is
errorOKUnknown(a) ==
    LET exp == a.exp[1]
    IN IF a.err # NilErr /\ IsResourceUnknown(a.err)
       THEN IF ~exp.Unknown
            THEN Ret([Fail(a, ErrorFailure(a.err)) EXCEPT !.terminal = TRUE],
                     FALSE)
            ELSE Ret([a EXCEPT !.err = NilErr], TRUE)
       ELSE Ret(a, TRUE)

\* a slip in errorOK lines 197-203: the code is checked when absence is
\* expected too, as notFoundOK (lines 234-246) does
errorOKStatusChecksCode(a) ==
    IF a.err # NilErr /\ IsStatusError(a.err)
    THEN IF StatusNotFound # a.err.code
         THEN Ret(Fail(a, ExpectedNotFound(a.err.code)), FALSE)
         ELSE Ret([a EXCEPT !.err = NilErr], TRUE)
    ELSE Ret(a, TRUE)

\* a slip in errorOK lines 199-201: the code mismatch is made terminal
errorOKStatusTerminal(a) ==
    IF a.err # NilErr /\ IsStatusError(a.err)
    THEN IF ~expectsNotFound(a) /\ StatusNotFound # a.err.code
         THEN Ret([Fail(a, ExpectedNotFound(a.err.code))
                      EXCEPT !.terminal = TRUE], FALSE)
         ELSE Ret([a EXCEPT !.err = NilErr], TRUE)
    ELSE Ret(a, TRUE)

\* a slip in errorOK lines 197-203: a 404 is refused too when absence is not
\* expected
errorOKStatusRefuses404(a) ==
    IF a.err # NilErr /\ IsStatusError(a.err)
    THEN IF ~expectsNotFound(a)
         THEN Ret(Fail(a, ExpectedNotFound(a.err.code)), FALSE)
         ELSE Ret([a EXCEPT !.err = NilErr], TRUE)
    ELSE Ret(a, TRUE)

\* errorOK lines 193-207: a StatusError is swallowed, unless absence is not
\* expected and its code is not 404
errorOKStatus(a) ==
    IF a.err # NilErr /\ IsStatusError(a.err)
    THEN IF ~expectsNotFound(a) /\ StatusNotFound # a.err.code
         THEN Ret(Fail(a, ExpectedNotFound(a.err.code)), FALSE)
         ELSE Ret([a EXCEPT !.err = NilErr], TRUE)
    ELSE Ret(a, TRUE)

\* a slip in errorOK lines 214-217: the substring mismatch is made terminal
errorOKStringTerminal(a) ==
    LET exp == a.exp[1]
    IN IF exp.Error # <<>> /\ SubjectNotNil(a.r)
       THEN IF a.err = NilErr
            THEN Ret([Fail(a, UnexpectedError(a.err)) EXCEPT !.terminal = TRUE],
                     FALSE)
            ELSE IF ~Contains(ErrorText(a.err), exp.Error)
                 THEN Ret([Fail(a, NotIn(ErrorText(a.err), exp.Error))
                              EXCEPT !.terminal = TRUE], FALSE)
                 ELSE Ret(a, TRUE)
       ELSE Ret(a, TRUE)

\* errorOK lines 208-218: the expected error string
errorOKString(a) ==
    LET exp == a.exp[1]
    IN IF exp.Error # <<>> /\ SubjectNotNil(a.r)
       THEN IF a.err = NilErr
            THEN Ret([Fail(a, UnexpectedError(a.err)) EXCEPT !.terminal = TRUE],
                     FALSE)
            ELSE IF ~Contains(ErrorText(a.err), exp.Error)
                 THEN Ret(Fail(a, NotIn(ErrorText(a.err), exp.Error)), FALSE)
                 ELSE Ret(a, TRUE)
       ELSE Ret(a, TRUE)

\* a slip in errorOK lines 219-223: the remaining error is recorded and made
\* terminal, but the check returns true
errorOKRemainingGoesOn(a) ==
    IF a.err # NilErr
    THEN Ret([Fail(a, UnexpectedError(a.err)) EXCEPT !.terminal = TRUE], TRUE)
    ELSE Ret(a, TRUE)

\* a slip in errorOK lines 219-223: the remaining error is not made terminal
errorOKRemainingRetryable(a) ==
    IF a.err # NilErr
    THEN Ret(Fail(a, UnexpectedError(a.err)), FALSE)
    ELSE Ret(a, TRUE)

\* errorOK lines 219-224: an error that is still set is unexpected
errorOKRemaining(a) ==
    IF a.err # NilErr
    THEN Ret([Fail(a, UnexpectedError(a.err)) EXCEPT !.terminal = TRUE], FALSE)
    ELSE Ret(a, TRUE)

\* errorOK
errorOK(a) ==
    LET u == errorOKUnknown(a)
    IN IF ~u.ok THEN u
       ELSE LET s == errorOKStatus(u.a)
            IN IF ~s.ok THEN s
               ELSE LET e == errorOKString(s.a)
                    IN IF ~e.ok THEN e ELSE errorOKRemaining(e.a)

\* a slip in lenOK line 270: only a list that is too long fails
lenOKAtMost(a) ==
    LET exp == a.exp[1]
    IN IF /\ exp.Len # <<>>
          /\ a.r.t = "UnstructuredList"
          /\ a.r.ptr # <<>>
          /\ Len(a.r.ptr[1]) > exp.Len[1]
       THEN Ret(Fail(a, NotEqualLength(exp.Len[1], Len(a.r.ptr[1]))), FALSE)
       ELSE Ret(a, TRUE)

\* a slip in lenOK lines 270-272: the mismatch returns false without a.Fail
lenOKSilent(a) ==
    LET exp == a.exp[1]
    IN IF /\ exp.Len # <<>>
          /\ a.r.t = "UnstructuredList"
          /\ a.r.ptr # <<>>
          /\ Len(a.r.ptr[1]) # exp.Len[1]
       THEN Ret(a, FALSE)
       ELSE Ret(a, TRUE)

\* lenOK
lenOK(a) ==
    LET exp == a.exp[1]
    IN IF /\ exp.Len # <<>>
          /\ a.r.t = "UnstructuredList"
          /\ a.r.ptr # <<>>
          /\ Len(a.r.ptr[1]) # exp.Len[1]
       THEN Ret(Fail(a, NotEqualLength(exp.Len[1], Len(a.r.ptr[1]))), FALSE)
       ELSE Ret(a, TRUE)

\* matchObjectFromAny: a map is used as it is, a string is read (inline or
\* from the file it names) and unmarshalled to the map it denotes; any other
\* value gives the empty map
matchObjectFromAny(m) ==
    CASE m.form = "map" -> m.obj
      [] m.form = "string" -> m.yaml
      [] OTHER -> MapDoc(<<>>)

RECURSIVE FailEach(_, _)
\* `for _, diff := range delta.Differences() { a.Fail(MatchesNotEqual(diff)) }`
FailEach(a, diffs) ==
    IF diffs = <<>> THEN a
    ELSE FailEach(Fail(a, MatchesNotEqual(Head(diffs))), Tail(diffs))

\* a slip in matchesOK lines 289-291: only the first difference is recorded
matchesOKFirstDifference(a, ord) ==
    LET exp == a.exp[1]
    IN IF exp.Matches # <<>> /\ hasSubject(a) /\ a.r.t = "Unstructured"
       THEN LET matchObj == matchObjectFromAny(exp.Matches[1])
                delta == compareResourceToMatchObject(
                             a.r.ptr[1], matchObj, ord)
            IN IF delta.panic
               THEN [Ret(a, FALSE) EXCEPT !.panic = TRUE]
               ELSE IF delta.differences # <<>>
                    THEN Ret(Fail(a, MatchesNotEqual(delta.differences[1])),
                             FALSE)
                    ELSE Ret(a, TRUE)
       ELSE Ret(a, TRUE)

\* matchesOK; ord is the order in which the comparator ranges over maps
matchesOK(a, ord) ==
    LET exp == a.exp[1]
    IN IF exp.Matches # <<>> /\ hasSubject(a) /\ a.r.t = "Unstructured"
       THEN LET matchObj == matchObjectFromAny(exp.Matches[1])
                delta == compareResourceToMatchObject(
                             a.r.ptr[1], matchObj, ord)
            IN IF delta.panic
               THEN [Ret(a, FALSE) EXCEPT !.panic = TRUE]
               ELSE IF delta.differences # <<>>
                    THEN Ret(FailEach(a, delta.differences), FALSE)
                    ELSE Ret(a, TRUE)
       ELSE Ret(a, TRUE)

\* json.Marshal(res): the bytes are the JSON text of the object
Marshal(obj) == [json |-> obj]

RECURSIVE FailAll(_, _)
\* `for _, f := range ja.Failures() { a.Fail(f) }`
FailAll(a, fs) ==
    IF fs = <<>> THEN a ELSE FailAll(Fail(a, Head(fs)), Tail(fs))

\* jsonOK; ja is what the payload assertion engine answers for the bytes it
\* is handed: ja.OK(), ja.Terminal() and ja.Failures()
jsonOK(a, ja) ==
    LET exp == a.exp[1]
    IN IF exp.JSON # <<>> /\ hasSubject(a)
       THEN LET b == IF a.r.t = "Unstructured"
                     THEN <<Marshal(a.r.ptr[1])>> ELSE <<>>
                r == IF ~ja.ok
                     THEN Ret(FailAll([a EXCEPT !.terminal = ja.terminal],
                                      ja.failures), FALSE)
                     ELSE Ret(a, TRUE)
            IN [r EXCEPT !.handed = <<b>>]
       ELSE Ret(a, TRUE)

\* a slip in OK lines 153-157: the unexpected error is not made terminal
OKNoExpectRetryable(a) ==
    IF a.err # NilErr
    THEN Ret(Fail(a, UnexpectedError(a.err)), FALSE)
    ELSE Ret(a, TRUE)

\* OK lines 151-159: no expectation attached
OKNoExpect(a) ==
    IF a.err # NilErr
    THEN Ret([Fail(a, UnexpectedError(a.err)) EXCEPT !.terminal = TRUE], FALSE)
    ELSE Ret(a, TRUE)

\* OK; nd holds the choices the evaluation does not control: the map
\* iteration order and the payload engine's answer
OK(a, nd) ==
    IF a.exp = <<>> THEN OKNoExpect(a)
    ELSE LET e == errorOK(a)
         IN IF ~e.ok THEN e
            ELSE LET l == lenOK(e.a)
                 IN IF ~l.ok THEN l
                    ELSE LET m == matchesOK(l.a, nd.ord)
                         IN IF ~m.ok THEN m ELSE jsonOK(m.a, nd.ja)

----------------------------------------------------------------------------
(* The inputs the model draws from.                                        *)

\* assert.error: not declared, or a substring
ErrorStrings == {<<>>, <<"b">>}

\* the Error() texts of the errors that are neither unknown-kind nor status
Messages == {<<"a", "b">>, <<"c">>}

\* assert.len: not declared, or a count
Lens == {<<>>} \cup {<<n>> : n \in 0..MaxItems}

\* assert.matches documents: YAML integers decode to int
MatchA == MapDoc([k \in {"a"} |-> IntDoc("int", 1)])
MatchAB ==
    MapDoc([k \in {"a", "b"} |->
               IF k = "a" THEN IntDoc("int", 1) ELSE StrDoc(<<"x">>)])

\* assert.matches: not declared, a map, or a YAML string
MatchesValues ==
    {<<>>, <<[form |-> "map", obj |-> MatchA]>>,
     <<[form |-> "string", yaml |-> MatchAB]>>}

\* assert.json: not declared, or a descriptor
JSONValues == {<<>>, <<"json">>}

\* the expectations: none attached (<<>>), or one Expect
Expects ==
    {<<>>} \cup
    {<<Expect(e, l, nf, u, m, j)>> :
        e \in ErrorStrings, l \in Lens, nf \in BOOLEAN, u \in BOOLEAN,
        m \in MatchesValues, j \in JSONValues}

\* the objects the API server returns: JSON integers decode to int64
Objects ==
    {MapDoc([k \in {"a", "b"} |->
                IF k = "a" THEN IntDoc("int64", 1) ELSE StrDoc(<<"x">>)]),
     MapDoc([k \in {"a"} |-> IntDoc("int64", 2)]),
     MapDoc([k \in {"a", "b"} |-> IntDoc("int64", 1)])}

AnObject == CHOOSE o \in Objects : DOMAIN o.m = {"a"}

\* the lists the API server returns
ItemLists == {[i \in 1..n |-> AnObject] : n \in 0..MaxItems}

\* the errors an action can return
Errors ==
    {NilErr, ResourceUnknown} \cup {StatusError(c) : c \in StatusCodes}
    \cup {OtherError(m) : m \in Messages}

\* the values of r
Subjects ==
    {NilSubject, NilUnstructured, NilUnstructuredList}
    \cup {Unstructured(o) : o \in Objects}
    \cup {UnstructuredList(l) : l \in ItemLists}

\* the answers of the payload assertion engine: it passes, or it fails with
\* at least one failure and its own terminal flag
JSONAnswers ==
    {[ok |-> TRUE, terminal |-> FALSE, failures |-> <<>>]} \cup
    {[ok |-> FALSE, terminal |-> t, failures |-> fs] :
        t \in BOOLEAN,
        fs \in {<<[f |-> "json", n |-> 1]>>,
                <<[f |-> "json", n |-> 1], [f |-> "json", n |-> 2]>>}}

\* the choices one evaluation does not control
Choices == [ord : KeyOrders, ja : JSONAnswers]

----------------------------------------------------------------------------
(* EvalSpec: one assertions object, from newAssertions through the checks  *)
(* of OK() one at a time.                                                  *)

\* no comparator call is modelled on its own
CmpIdle ==
    /\ cmpin = <<>>
    /\ cmpout = <<>>

\* no constructor of errors.go is modelled on its own
ErrIdle ==
    /\ errin = <<>>
    /\ errout = <<>>

\* no test spec is running
RunIdle ==
    /\ kube = <<>>
    /\ pc = "idle"
    /\ asserts = <<>>
    /\ last = <<>>
    /\ reported = <<>>
    /\ calls = <<>>
    /\ ticker = <<>>
    /\ now = 0
    /\ deadline = <<>>
    /\ attempts = 0
    /\ success = FALSE
    /\ idx = 0
    /\ gvr = <<>>
    /\ ret = "none"

EvInit ==
    /\ RunIdle
    /\ CmpIdle
    /\ ErrIdle
    /\ evin \in [exp : Expects, err : Errors, r : Subjects]
    /\ ev = newAssertions(evin.exp, evin.err, evin.r)
    /\ evpc = "OK"
    /\ evok = FALSE
    /\ evhanded = <<>>

\* a slip in OK lines 160-172: a check that returned false does not end OK()
EvStepGoesOn(res, next) ==
    /\ ev' = res.a
    /\ evhanded' = res.handed
    /\ evpc' = IF res.panic THEN "panic" ELSE next
    /\ evok' = (res.ok /\ next = "done")
    /\ UNCHANGED <<evin, cmpvars, errvars, runvars>>

\* one check has returned res: OK() returns false if the check did, and goes
\* on to the check at next otherwise
EvStep(res, next) ==
    /\ ev' = res.a
    /\ evhanded' = res.handed
    /\ evpc' = IF res.panic THEN "panic" ELSE IF res.ok THEN next ELSE "done"
    /\ evok' = (res.ok /\ next = "done")
    /\ UNCHANGED <<evin, cmpvars, errvars, runvars>>

\* OK lines 151-159
EvOK ==
    /\ evpc = "OK"
    /\ IF ev.exp = <<>>
       THEN EvStep(OKNoExpect(ev), "done")
       ELSE EvStep(Ret(ev, TRUE), "errorOK")

\* OK lines 160-162
EvErrorOK ==
    /\ evpc = "errorOK"
    /\ EvStep(errorOK(ev), "lenOK")

\* OK lines 163-165
EvLenOK ==
    /\ evpc = "lenOK"
    /\ EvStep(lenOK(ev), "matchesOK")

\* OK lines 166-168
EvMatchesOK ==
    /\ evpc = "matchesOK"
    /\ \E ord \in KeyOrders : EvStep(matchesOK(ev, ord), "jsonOK")

\* OK lines 169-172
EvJsonOK ==
    /\ evpc = "jsonOK"
    /\ \E ja \in JSONAnswers : EvStep(jsonOK(ev, ja), "done")

EvNext == EvOK \/ EvErrorOK \/ EvLenOK \/ EvMatchesOK \/ EvJsonOK

EvalSpec == EvInit /\ [][EvNext]_vars

\* OK() has returned
EvDone == evpc = "done"

\* the evaluation as one call of OK(), for some choice
EvIsOK(in, res) ==
    \E nd \in Choices : OK(newAssertions(in.exp, in.err, in.r), nd) = res

----------------------------------------------------------------------------
(* Spec: one test spec run by Spec.Run (part_001 lines 385-799).           *)

\* defaultGetTimeout, in seconds
defaultGetTimeout == 5

\* the number of fields an Expect declares
Declared(exp) ==
    Cardinality({f \in {"Error", "Len", "Matches", "JSON"} : exp[f] # <<>>})
    + (IF exp.NotFound THEN 1 ELSE 0) + (IF exp.Unknown THEN 1 ELSE 0)

\* the expectations the runs are started with: none attached, one that
\* declares at most one field, or matches together with json
RunExpects ==
    {e \in Expects :
        \/ e = <<>>
        \/ Declared(e[1]) <= 1
        \/ Declared(e[1]) = 2 /\ e[1].Matches # <<>> /\ e[1].JSON # <<>>}

\* the deadline of the ctx Run is called with: none, or a second
CallerDeadlines == {<<>>, <<2>>}

\* the test specs: one action each.  named: the get or delete subject has a
\* "/name" part; file: the delete subject is a file path; n: the number of
\* objects in the manifest; readErr: the manifest cannot be opened or decoded
KubeSpecs ==
    {[action |-> "get", named |-> nm, file |-> FALSE, n |-> 0,
      readErr |-> FALSE, assert |-> e, ctxDeadline |-> d] :
        nm \in BOOLEAN, e \in RunExpects, d \in CallerDeadlines}
    \cup
    {[action |-> act, named |-> TRUE, file |-> TRUE, n |-> n,
      readErr |-> re, assert |-> e, ctxDeadline |-> <<>>] :
        act \in {"create", "apply", "delete"}, n \in 0..MaxObjs,
        re \in BOOLEAN, e \in RunExpects}
    \cup
    {[action |-> "delete", named |-> nm, file |-> FALSE, n |-> 0,
      readErr |-> FALSE, assert |-> e, ctxDeadline |-> <<>>] :
        nm \in BOOLEAN, e \in RunExpects}

\* the errors c.gvrFromGVK returns: none, the unknown kind, a failed discovery
ResolveErrors ==
    {NilErr, ResourceUnknown} \cup {OtherError(m) : m \in Messages}

\* the errors the API server's answers carry
ActionErrors ==
    {StatusError(c) : c \in StatusCodes} \cup {OtherError(m) : m \in Messages}

\* Get, Create and Apply return (obj, nil) or (nil, err)
ObjectOutcomes ==
    {[err |-> NilErr, r |-> Unstructured(o)] : o \in Objects}
    \cup {[err |-> e, r |-> NilUnstructured] : e \in ActionErrors}

\* List returns (list, nil) or (nil, err)
ListOutcomes ==
    {[err |-> NilErr, r |-> UnstructuredList(l)] : l \in ItemLists}
    \cup {[err |-> e, r |-> NilUnstructuredList] : e \in ActionErrors}

\* Delete and DeleteCollection return an error only: doDelete passes nil as r
DeleteOutcomes ==
    {[err |-> e, r |-> NilSubject] : e \in {NilErr} \cup ActionErrors}

\* the outcomes of the remote call op
Outcomes(op) ==
    CASE op \in {"get", "create", "apply"} -> ObjectOutcomes
      [] op = "list" -> ListOutcomes
      [] OTHER -> DeleteOutcomes

NoTicker == [state |-> "none", at |-> 0, stopped |-> FALSE]

Init ==
    /\ ev = <<>>
    /\ evin = <<>>
    /\ evpc = "idle"
    /\ evok = FALSE
    /\ evhanded = <<>>
    /\ cmpin = <<>>
    /\ cmpout = <<>>
    /\ ErrIdle
    /\ kube \in KubeSpecs
    /\ pc = "start"
    /\ asserts = <<>>
    /\ last = <<>>
    /\ reported = <<>>
    /\ calls = <<>>
    /\ ticker = NoTicker
    /\ now = 0
    /\ deadline = kube.ctxDeadline
    /\ attempts = 0
    /\ success = FALSE
    /\ idx = 0
    /\ gvr = <<>>
    /\ ret = "none"

\* ctx.Done() is closed
ctxDone == deadline # <<>> /\ now >= deadline[1]

\* `for _, f := range a.Failures() { t.Error(f) }`
Report(res) == reported' = reported \o res.a.failures

\* c.gvrFromGVK(gvk), newAssertions(s.Kube.Assert, err, nil) and a.OK(): the
\* evaluation of the kind resolution for some resolution outcome
Resolutions ==
    {[err |-> kerr,
      res |-> OK(newAssertions(kube.assert, kerr, NilSubject), nd)] :
        kerr \in ResolveErrors, nd \in Choices}

\* the remote call op and the evaluation of its outcome:
\* newAssertions(s.Kube.Assert, err, r) and a.OK()
Evaluations(op) ==
    {[out |-> out,
      res |-> OK(newAssertions(kube.assert, out.err, out.r), nd)] :
        out \in Outcomes(op), nd \in Choices}

\* a slip in runGet lines 441-447: the ctx is wrapped in the default timeout
\* whether or not it carries a deadline
RunGetAlwaysDefault ==
    /\ pc = "start"
    /\ kube.action = "get"
    /\ \E k \in Resolutions :
          /\ asserts' = <<k.res.a>>
          /\ gvr' = <<[err |-> k.err, ok |-> k.res.ok]>>
          /\ IF ~k.res.ok
             THEN /\ Report(k.res)
                  /\ pc' = "done"
                  /\ ret' = "nil"
                  /\ UNCHANGED <<deadline, ticker>>
             ELSE /\ deadline' = <<now + defaultGetTimeout>>
                  /\ ticker' = [state |-> "send", at |-> now, stopped |-> FALSE]
                  /\ pc' = "poll"
                  /\ UNCHANGED <<reported, ret>>
    /\ attempts' = 0
    /\ success' = FALSE
    /\ UNCHANGED <<kube, last, calls, now, idx, evvars, cmpvars, errvars>>

\* runGet lines 428-455: the kind is resolved and the resolution evaluated;
\* on a pass the ctx gets its default deadline and the ticker is started
RunGet ==
    /\ pc = "start"
    /\ kube.action = "get"
    /\ \E k \in Resolutions :
          /\ asserts' = <<k.res.a>>
          /\ gvr' = <<[err |-> k.err, ok |-> k.res.ok]>>
          /\ IF ~k.res.ok
             THEN /\ Report(k.res)
                  /\ pc' = "done"
                  /\ ret' = "nil"
                  /\ UNCHANGED <<deadline, ticker>>
             ELSE /\ deadline' = IF deadline = <<>>
                                 THEN <<now + defaultGetTimeout>>
                                 ELSE deadline
                  /\ ticker' = [state |-> "send", at |-> now, stopped |-> FALSE]
                  /\ pc' = "poll"
                  /\ UNCHANGED <<reported, ret>>
    /\ attempts' = 0
    /\ success' = FALSE
    /\ UNCHANGED <<kube, last, calls, now, idx, evvars, cmpvars, errvars>>

\* runGet lines 456-458: a tick is received from ticker.C
GetTick ==
    /\ pc = "poll"
    /\ ticker.state = "send"
    /\ attempts' = attempts + 1
    /\ ticker' = [ticker EXCEPT !.state = "next"]
    /\ pc' = "attempt"
    /\ UNCHANGED <<kube, asserts, last, reported, calls, now, deadline,
                   success, idx, gvr, ret, evvars, cmpvars, errvars>>

\* runGet lines 482-487: after the loop the failures of a are reported
\* unless success (the variable of line 454) is set
ReportAfterLoop(res) ==
    IF ~success THEN Report(res) ELSE UNCHANGED reported

\* a slip in runGet line 471: a terminal failure does not end the loop
StopPollingOnSuccessOnly(res) == res.ok

\* runGet lines 465-474: the loop ends when the attempt passed or is terminal
StopPolling(res) == res.ok \/ res.a.terminal

\* a slip in runGet lines 475-480: the failures of an attempt that does not
\* end the loop are reported instead of logged
LoopFailuresReported(res) == Report(res)

\* runGet lines 475-480: the failures of an attempt that does not end the
\* loop are only logged
LoopFailures(res) == UNCHANGED reported

\* runGet lines 460-481 and 482-487: doList or doGet, the evaluation, and
\* the decision to stop
GetAttempt ==
    /\ pc = "attempt"
    /\ LET op == IF kube.named THEN "get" ELSE "list"
       IN \E e \in Evaluations(op) :
             /\ calls' = Append(calls, [op |-> op, obj |-> 0, gvr |-> gvr[1]])
             /\ asserts' = <<e.res.a>>
             /\ last' = <<[out |-> e.out, ok |-> e.res.ok,
                           handed |-> e.res.handed]>>
             /\ IF e.res.panic
                THEN /\ pc' = "panic"
                     /\ UNCHANGED <<ticker, reported, ret>>
                ELSE IF StopPolling(e.res)
                     THEN /\ ticker' = [ticker EXCEPT !.stopped = TRUE]
                          /\ ReportAfterLoop(e.res)
                          /\ pc' = "done"
                          /\ ret' = "nil"
                     ELSE /\ LoopFailures(e.res)
                          /\ pc' = "poll"
                          /\ UNCHANGED <<ticker, ret>>
    /\ UNCHANGED <<kube, now, deadline, attempts, success, idx, gvr, evvars,
                   cmpvars, errvars>>

\* runGet line 456 and lines 482-487: ticker.C is closed, the loop ends
GetExhausted ==
    /\ pc = "poll"
    /\ ticker.state = "closed"
    /\ ReportAfterLoop([a |-> asserts[1]])
    /\ pc' = "done"
    /\ ret' = "nil"
    /\ UNCHANGED <<kube, asserts, last, calls, ticker, now, deadline,
                   attempts, success, idx, gvr, evvars, cmpvars, errvars>>

\* The ticker of backoff.NewTicker(backoff.WithContext(
\* backoff.NewExponentialBackOff(), ctx)) (runGet lines 451-452).  Its
\* goroutine offers a first tick at once ("send"); when a tick has been taken
\* it asks the backoff for the next interval ("next"), which is Stop once ctx
\* is done, and otherwise waits for the timer, ticker.Stop() or ctx.Done()
\* ("timer"); it closes ticker.C when it ends ("closed").

\* after a tick was taken: NextBackOff() is Stop when ctx is done, else a timer
\* is started for the next interval
TickerNext ==
    /\ ticker.state = "next"
    /\ IF ctxDone
       THEN ticker' = [ticker EXCEPT !.state = "closed"]
       ELSE \E d \in 1..MaxInterval :
               ticker' = [ticker EXCEPT !.state = "timer", !.at = now + d]
    /\ UNCHANGED <<kube, pc, asserts, last, reported, calls, now, deadline,
                   attempts, success, idx, gvr, ret, evvars, cmpvars, errvars>>

\* the timer fires: the next tick is offered
TickerFire ==
    /\ ticker.state = "timer"
    /\ now >= ticker.at
    /\ ticker' = [ticker EXCEPT !.state = "send"]
    /\ UNCHANGED <<kube, pc, asserts, last, reported, calls, now, deadline,
                   attempts, success, idx, gvr, ret, evvars, cmpvars, errvars>>

\* ctx.Done() is chosen while waiting for the timer
TickerCtxDone ==
    /\ ticker.state = "timer"
    /\ ctxDone
    /\ ticker' = [ticker EXCEPT !.state = "closed"]
    /\ UNCHANGED <<kube, pc, asserts, last, reported, calls, now, deadline,
                   attempts, success, idx, gvr, ret, evvars, cmpvars, errvars>>

\* ticker.Stop() (runGet line 472) is seen while waiting for the timer or
\* while offering a tick
TickerStopped ==
    /\ ticker.state \in {"timer", "send"}
    /\ ticker.stopped
    /\ ticker' = [ticker EXCEPT !.state = "closed"]
    /\ UNCHANGED <<kube, pc, asserts, last, reported, calls, now, deadline,
                   attempts, success, idx, gvr, ret, evvars, cmpvars, errvars>>

\* a second passes while runGet waits for a tick or for the API server
Tick ==
    /\ pc \in {"poll", "attempt"}
    /\ now < MaxTime
    /\ now' = now + 1
    /\ UNCHANGED <<kube, pc, asserts, last, reported, calls, ticker, deadline,
                   attempts, success, idx, gvr, ret, evvars, cmpvars, errvars>>

\* runCreate lines 539-558, runApply lines 599-618, runDelete lines 699-709:
\* the manifest is opened and decoded
OpenManifest(action, file) ==
    /\ pc = "start"
    /\ kube.action = action
    /\ kube.file = file
    /\ IF kube.readErr
       THEN pc' = "done" /\ ret' = "err" /\ idx' = idx
       ELSE IF kube.n = 0
            THEN pc' = "done" /\ ret' = "nil" /\ idx' = idx
            ELSE pc' = "objs" /\ ret' = ret /\ idx' = 1
    /\ UNCHANGED <<kube, asserts, last, reported, calls, ticker, now,
                   deadline, attempts, success, gvr, evvars, cmpvars, errvars>>

\* a slip in runCreate lines 583-587 (and their copies in runApply, doDelete and
\* doDeleteCollection): only the failures of a terminal evaluation are reported
CallAndSwallow(op, i, k) ==
    \E e \in Evaluations(op) :
        /\ calls' = Append(calls, [op |-> op, obj |-> i,
                                   gvr |-> [err |-> k.err, ok |-> k.res.ok]])
        /\ asserts' = <<e.res.a>>
        /\ last' = <<[out |-> e.out, ok |-> e.res.ok, handed |-> e.res.handed]>>
        /\ IF e.res.panic
           THEN pc' = "panic" /\ UNCHANGED <<reported, ret, idx>>
           ELSE /\ IF ~e.res.ok /\ e.res.a.terminal
                   THEN Report(e.res) ELSE UNCHANGED reported
                /\ IF idx >= kube.n
                   THEN pc' = "done" /\ ret' = "nil" /\ idx' = idx
                   ELSE pc' = pc /\ ret' = ret /\ idx' = idx + 1

\* a slip in runCreate lines 583-587 (and their copies in runApply and
\* runDelete): a failed evaluation of the call's outcome ends the loop, as a
\* failed resolution does
CallAndStopOnFailure(op, i, k) ==
    \E e \in Evaluations(op) :
        /\ calls' = Append(calls, [op |-> op, obj |-> i,
                                   gvr |-> [err |-> k.err, ok |-> k.res.ok]])
        /\ asserts' = <<e.res.a>>
        /\ last' = <<[out |-> e.out, ok |-> e.res.ok, handed |-> e.res.handed]>>
        /\ IF e.res.panic
           THEN pc' = "panic" /\ UNCHANGED <<reported, ret, idx>>
           ELSE /\ IF ~e.res.ok THEN Report(e.res) ELSE UNCHANGED reported
                /\ IF idx >= kube.n \/ ~e.res.ok
                   THEN pc' = "done" /\ ret' = "nil" /\ idx' = idx
                   ELSE pc' = pc /\ ret' = ret /\ idx' = idx + 1

\* after the kind resolution k passed: the remote call op for object i, the
\* evaluation of its outcome and the report of its failures
CallAndReport(op, i, k) ==
    \E e \in Evaluations(op) :
        /\ calls' = Append(calls, [op |-> op, obj |-> i,
                                   gvr |-> [err |-> k.err, ok |-> k.res.ok]])
        /\ asserts' = <<e.res.a>>
        /\ last' = <<[out |-> e.out, ok |-> e.res.ok, handed |-> e.res.handed]>>
        /\ IF e.res.panic
           THEN pc' = "panic" /\ UNCHANGED <<reported, ret, idx>>
           ELSE /\ IF ~e.res.ok THEN Report(e.res) ELSE UNCHANGED reported
                /\ IF idx >= kube.n
                   THEN pc' = "done" /\ ret' = "nil" /\ idx' = idx
                   ELSE pc' = pc /\ ret' = ret /\ idx' = idx + 1

\* a slip in runCreate lines 567-572 (and their copies in runApply and
\* runDelete): the failed resolution is reported but the run goes on
ResolveAndCallRegardless(op, i) ==
    \E k \in Resolutions :
        /\ gvr' = <<[err |-> k.err, ok |-> k.res.ok]>>
        /\ \E e \in Evaluations(op) :
              /\ calls' = Append(calls, [op |-> op, obj |-> i,
                                         gvr |-> gvr'[1]])
              /\ asserts' = <<e.res.a>>
              /\ last' = <<[out |-> e.out, ok |-> e.res.ok,
                            handed |-> e.res.handed]>>
              /\ reported' = reported \o k.res.a.failures \o e.res.a.failures
              /\ pc' = "done"
              /\ ret' = "nil"
              /\ idx' = idx

\* one kind resolution and its evaluation: a failed evaluation is reported and
\* ends the run; after a passed one the remote call op is made
ResolveAndCall(op, i) ==
    \E k \in Resolutions :
        /\ gvr' = <<[err |-> k.err, ok |-> k.res.ok]>>
        /\ IF ~k.res.ok
           THEN /\ asserts' = <<k.res.a>>
                /\ Report(k.res)
                /\ pc' = "done"
                /\ ret' = "nil"
                /\ UNCHANGED <<calls, last, idx>>
           ELSE CallAndReport(op, i, k)

\* one iteration of the loop over the manifest's objects
ManifestObj(action, op) ==
    /\ pc = "objs"
    /\ kube.action = action
    /\ ResolveAndCall(op, idx)
    /\ UNCHANGED <<kube, ticker, now, deadline, attempts, success, evvars,
                   cmpvars, errvars>>

\* runCreate lines 539-558
RunCreate == OpenManifest("create", TRUE)

\* runCreate lines 559-588
CreateObj == ManifestObj("create", "create")

\* runApply lines 599-618
RunApply == OpenManifest("apply", TRUE)

\* runApply lines 619-655
ApplyObj == ManifestObj("apply", "apply")

\* runDelete lines 699-709
RunDeleteFile == OpenManifest("delete", TRUE)

\* runDelete lines 710-732 with doDelete
DeleteObj == ManifestObj("delete", "delete")

\* runDelete lines 736-751 with doDelete or doDeleteCollection
RunDelete ==
    /\ pc = "start"
    /\ kube.action = "delete"
    /\ ~kube.file
    /\ ResolveAndCall(IF kube.named THEN "delete" ELSE "deleteCollection", 0)
    /\ UNCHANGED <<kube, ticker, now, deadline, attempts, success, evvars,
                   cmpvars, errvars>>

Next ==
    \/ RunGet
    \/ GetTick
    \/ GetAttempt
    \/ GetExhausted
    \/ TickerNext
    \/ TickerFire
    \/ TickerCtxDone
    \/ TickerStopped
    \/ Tick
    \/ RunCreate
    \/ CreateObj
    \/ RunApply
    \/ ApplyObj
    \/ RunDeleteFile
    \/ DeleteObj
    \/ RunDelete

Spec == Init /\ [][Next]_vars

----------------------------------------------------------------------------
(* CompareSpec: one call of collectFieldDifferences on two documents.      *)

\* the integers compared: every width, signed and unsigned
CmpInts ==
    {IntDoc(w, 1) : w \in SignedKinds}
    \cup {IntDoc("int", 2), IntDoc("int64", 2)}
    \cup {UintDoc(w, 1) : w \in UnsignedKinds}

\* the scalars compared
CmpScalars ==
    CmpInts \cup
    {StrDoc(<<"1">>), StrDoc(<<"0", "1">>), StrDoc(<<"x">>),
     BoolDoc(TRUE), BoolDoc(FALSE), NilDoc}

\* map[string]interface{} values over some of the keys, with values in vals
MapsOver(vals) ==
    {MapDoc(f) : f \in UNION {[K -> vals] : K \in SUBSET Keys}}

\* []interface{} values of up to MaxItems elements in vals
SlicesOver(vals) ==
    {SliceDoc(l) : l \in UNION {[1..n -> vals] : n \in 0..MaxItems}}

\* the values held by the flat containers
CmpElems ==
    {IntDoc("int", 1), IntDoc("int64", 1), IntDoc("int64", 2), StrDoc(<<"x">>)}

\* the values held by the nested maps
CmpInner ==
    {IntDoc("int64", 1),
     MapDoc([k \in {"a"} |-> IntDoc("int64", 1)]),
     MapDoc([k \in {"a"} |-> IntDoc("int64", 2)]),
     MapDoc([k \in {"a", "b"} |->
                IF k = "a" THEN IntDoc("int64", 1) ELSE StrDoc(<<"x">>)]),
     SliceDoc(<<IntDoc("int64", 1)>>),
     SliceDoc(<<IntDoc("int64", 2), StrDoc(<<"x">>)>>)}

\* the documents compared: scalars, flat maps and slices, maps of maps
CmpDocs ==
    CmpScalars \cup MapsOver(CmpElems) \cup SlicesOver(CmpElems)
    \cup MapsOver(CmpInner)

\* no evaluation is modelled on its own
EvIdle ==
    /\ ev = <<>>
    /\ evin = <<>>
    /\ evpc = "idle"
    /\ evok = FALSE
    /\ evhanded = <<>>

CmpInit ==
    /\ RunIdle
    /\ EvIdle
    /\ ErrIdle
    /\ cmpin \in [match : CmpDocs, subject : CmpDocs]
    /\ cmpout = <<>>

\* collectFieldDifferences("$", match, subject, delta) on an empty delta, for
\* one order in which ranging over the maps yields their keys
CmpCollect ==
    /\ cmpin # <<>>
    /\ cmpout = <<>>
    /\ \E ord \in KeyOrders :
          cmpout' = <<[ord |-> ord,
                       delta |-> collectFieldDifferences(
                                     <<>>, cmpin.match, cmpin.subject,
                                     NoDelta, ord)]>>
    /\ UNCHANGED <<cmpin, evvars, errvars, runvars>>

CmpNext == CmpCollect

CompareSpec == CmpInit /\ [][CmpNext]_vars

----------------------------------------------------------------------------
(* ErrSpec: the errors of errors.go.  An error is a record: id names the   *)
(* package variable that holds it ("new" for a value a constructor has     *)
(* just allocated), msg is its format, unwrap what its Unwrap() returns.   *)

\* errors.New(msg), held by the package variable id
ErrorsNew(id) == [id |-> id, msg |-> <<id>>, unwrap |-> <<>>]

\* a slip in a format of errors.go: %v or %s where %w is meant, so that the
\* error has no Unwrap()
ErrorfNoWrap(id, msg, w) == [id |-> id, msg |-> msg, unwrap |-> <<>>]

\* fmt.Errorf(msg, w, ...) with the verb %w for w: Unwrap() returns w
Errorf(id, msg, w) == [id |-> id, msg |-> msg, unwrap |-> <<w>>]

\* errors.Is(err, target): err or an error of its Unwrap() chain is target
RECURSIVE ErrorsIs(_, _)
ErrorsIs(err, target) ==
    \/ err = target
    \/ err.unwrap # <<>> /\ ErrorsIs(err.unwrap[1], target)

\* gdterrors.ErrParse and gdterrors.ErrFailure (gdt-core/errors)
ErrParse == ErrorsNew("ErrParse")
ErrFailure == ErrorsNew("ErrFailure")

\* the sentinels of errors.go lines 14-86 that a constructor wraps
ErrKubeConfigNotFound ==
    Errorf("ErrKubeConfigNotFound",
           <<"%w: specified kube config path not found">>, ErrParse)
ErrResourceSpecifierInvalid ==
    Errorf("ErrResourceSpecifierInvalid",
           <<"%w: invalid resource specifier">>, ErrParse)
ErrResourceSpecifierInvalidOrFilepath ==
    Errorf("ErrResourceSpecifierInvalidOrFilepath",
           <<"%w: invalid resource specifier or filepath">>, ErrParse)
ErrMatchesInvalid ==
    Errorf("ErrMatchesInvalid",
           <<"%w: kube.assert.matches not well-formed">>, ErrParse)
ErrResourceUnknown ==
    Errorf("ErrResourceUnknown", <<"%w: resource unknown">>, ErrFailure)
ErrExpectedNotFound ==
    Errorf("ErrExpectedNotFound", <<"%w: expected not found">>, ErrFailure)
ErrMatchesNotEqual ==
    Errorf("ErrMatchesNotEqual", <<"%w: match field not equal">>, ErrFailure)

\* the constructors of errors.go lines 88-137
Constructors ==
    {"KubeConfigNotFound", "InvalidResourceSpecifier",
     "InvalidResourceSpecifierOrFilepath", "ResourceUnknown",
     "ExpectedNotFound", "MatchesInvalid", "MatchesInvalidUnmarshalError",
     "MatchesNotEqual"}

\* the texts a constructor is called with
ErrArgs ==
    {"", "a", "b", "pods", "pods/nginx", "got 2 items", "%w", "configmaps"}

\* the error the constructor c returns for the argument arg
Construct(c, arg) ==
    CASE c = "KubeConfigNotFound" ->
            Errorf("new", <<"%w: %s", arg>>, ErrKubeConfigNotFound)
      [] c = "InvalidResourceSpecifier" ->
            Errorf("new", <<"%w: %s", arg>>, ErrResourceSpecifierInvalid)
      [] c = "InvalidResourceSpecifierOrFilepath" ->
            Errorf("new", <<"%w: %s", arg>>,
                   ErrResourceSpecifierInvalidOrFilepath)
      [] c = "ResourceUnknown" ->
            Errorf("new", <<"%w: %s", arg>>, ErrResourceUnknown)
      [] c = "ExpectedNotFound" ->
            Errorf("new", <<"%w: %s", arg>>, ErrExpectedNotFound)
      [] c = "MatchesInvalid" ->
            Errorf("new",
                   <<"%w: need string or map[string]interface{} but got %T",
                     arg>>, ErrMatchesInvalid)
      [] c = "MatchesInvalidUnmarshalError" ->
            Errorf("new", <<"%w: %s", arg>>, ErrMatchesInvalid)
      [] c = "MatchesNotEqual" ->
            Errorf("new", <<"%w: %s", arg>>, ErrMatchesNotEqual)

ErrInit ==
    /\ RunIdle
    /\ EvIdle
    /\ CmpIdle
    /\ errin \in [c : Constructors, arg : ErrArgs]
    /\ errout = <<>>

\* the constructor is called
ErrConstruct ==
    /\ errin # <<>>
    /\ errout = <<>>
    /\ errout' = <<Construct(errin.c, errin.arg)>>
    /\ UNCHANGED <<errin, evvars, cmpvars, runvars>>

ErrNext == ErrConstruct

ErrSpec == ErrInit /\ [][ErrNext]_vars

----------------------------------------------------------------------------
(* Properties of the evaluation (EvalSpec).                                *)

EvResult ==
    [a |-> ev, ok |-> evok, panic |-> (evpc = "panic"), handed |-> evhanded]

\* the evaluation is over: OK() returned or the process panicked
EvOver == evpc \in {"done", "panic"}

\* the evaluation ended exactly as an evaluation of the same expectation and
\* subject with a nil action error can end
EvAsIfNoError == EvIsOK([evin EXCEPT !.err = NilErr], EvResult)

\* an expectation is attached and E holds of it
EvExpect(E(_)) == evin.exp # <<>> /\ E(evin.exp[1])

\* absence is expected: notfound: true or len: 0
EvExpectsAbsence ==
    EvExpect(LAMBDA exp : exp.NotFound \/ exp.Len = <<0>>)

\* C6: an unknown-kind action error fails the evaluation terminally with
\* exactly one failure when unknown is not declared, whatever the other
\* fields are; when unknown is declared the error is cleared and the
\* evaluation goes on as it does with no error.
C6_UnknownKind ==
    (EvOver /\ evin.exp # <<>> /\ IsResourceUnknown(evin.err)) =>
        IF evin.exp[1].Unknown
        THEN ev.err = NilErr /\ EvAsIfNoError
        ELSE /\ evpc = "done"
             /\ ~evok
             /\ ev.terminal
             /\ ev.failures = <<ErrorFailure(evin.err)>>

C6_Witness ==
    /\ EvDone
    /\ IsResourceUnknown(evin.err)
    /\ EvExpect(LAMBDA exp : exp.Unknown /\ exp.Matches # <<>>)
    /\ evok

EvErrorChecked == evin.exp # <<>> /\ evpc \notin {"OK", "errorOK"}

\* the action error is one that neither classification of errorOK touches,
\* so that it is still set at line 208
EvErrorRemains == evin.err.kind = "other"

\* C11: when a non-empty error substring is declared and the action returns
\* an error whose message contains it, the error check passes: it records no
\* failure.  Stated for the outcomes whose r is not nil, for which
\* errorOK compares the message with the substring (lines 208-218).
C11_ExpectedErrorPasses ==
    (/\ EvErrorChecked
     /\ evin.exp[1].Error # <<>>
     /\ SubjectNotNil(evin.r)
     /\ EvErrorRemains
     /\ Contains(ErrorText(evin.err), evin.exp[1].Error)) =>
        /\ ev.failures = <<>>
        /\ ~ev.terminal
        /\ evpc = "done" => evok

\* C13: when a non-empty error substring is declared, r is not nil and the
\* error still set after the classification has a text that does not contain
\* the substring, OK() returns false with exactly one failure, which names
\* the text and the substring, and terminal stays false.
C13_SubstringMismatch ==
    (/\ EvErrorChecked
     /\ evin.exp[1].Error # <<>>
     /\ SubjectNotNil(evin.r)
     /\ EvErrorRemains
     /\ ~Contains(ErrorText(evin.err), evin.exp[1].Error)) =>
        /\ evpc = "done"
        /\ ~evok
        /\ ev.failures = <<NotIn(ErrorText(evin.err), evin.exp[1].Error)>>
        /\ ~ev.terminal

C13_Witness ==
    /\ EvDone
    /\ evin.exp # <<>>
    /\ evin.exp[1].Error = <<"b">>
    /\ evin.err = OtherError(<<"c">>)
    /\ evin.r \in {Unstructured(o) : o \in Objects}
    /\ ev.failures = <<NotIn(<<"c">>, <<"b">>)>>

\* C14: with an expectation attached that declares no error substring, an
\* action error that is neither an unknown-kind error nor a StatusError
\* fails the evaluation terminally with exactly one unexpected-error failure.
C14_RemainingErrorTerminal ==
    (EvErrorChecked /\ evin.exp[1].Error = <<>> /\ EvErrorRemains) =>
        /\ evpc = "done"
        /\ ~evok
        /\ ev.failures = <<UnexpectedError(evin.err)>>
        /\ ev.terminal

C14_Witness ==
    /\ EvDone
    /\ evin.exp # <<>>
    /\ evin.exp[1].Error = <<>>
    /\ evin.exp[1].Matches # <<>>
    /\ EvErrorRemains
    /\ ev.terminal
    /\ Len(ev.failures) = 1

\* the expectation declares nothing
EvPlainExpectation ==
    EvExpect(LAMBDA exp : /\ exp.Matches = <<>>
                          /\ exp.Len = <<>>
                          /\ exp.Error = <<>>
                          /\ ~exp.NotFound
                          /\ ~exp.Unknown
                          /\ exp.JSON = <<>>)

\* C15: with an expectation attached that declares none of matches, len,
\* error, notfound and unknown (and no payload descriptor), OK() returns true
\* if and only if the action error is nil.
C15_PlainExpectation ==
    (EvDone /\ EvPlainExpectation) => (evok <=> evin.err = NilErr)

\* the outcome is a list: r is a non-nil *UnstructuredList
EvListOutcome == evin.r.t = "UnstructuredList" /\ evin.r.ptr # <<>>

\* no failure of the given kinds has been recorded
EvNoFailureOf(kinds) ==
    \A i \in 1..Len(ev.failures) : ev.failures[i].f \notin kinds

\* C16: for a list outcome with no action error and len: N declared (and no
\* error substring, whose check comes first), a list of another length ends
\* the evaluation with exactly one length failure and terminal false, also
\* when matches is declared; a list of N items records no length and no
\* structural failure, and the evaluation passes unless a declared payload
\* check fails.
C16_LengthCheck ==
    (/\ EvOver
     /\ EvExpect(LAMBDA exp : exp.Len # <<>> /\ exp.Error = <<>>)
     /\ evin.err = NilErr
     /\ EvListOutcome) =>
        LET n == evin.exp[1].Len[1]
            got == Len(evin.r.ptr[1])
        IN /\ evpc = "done"
           /\ got # n =>
                  /\ ~evok
                  /\ ev.failures = <<NotEqualLength(n, got)>>
                  /\ ~ev.terminal
           /\ got = n =>
                  /\ EvNoFailureOf({"NotEqualLength", "MatchesNotEqual"})
                  /\ evin.exp[1].JSON = <<>> => evok
           /\ evok => got = n

C16_Witness ==
    /\ EvDone
    /\ EvExpect(LAMBDA exp : exp.Len = <<1>> /\ exp.Matches # <<>>)
    /\ evin.err = NilErr
    /\ EvListOutcome
    /\ Len(evin.r.ptr[1]) = 2
    /\ ev.failures = <<NotEqualLength(1, 2)>>

\* what the caller of OK() observes: the return value, the terminal flag, the
\* failures, and whether the evaluation aborted
Observed(res) ==
    [ok |-> res.ok, terminal |-> res.a.terminal, failures |-> res.a.failures,
     panic |-> res.panic]

\* the expectation exp with notfound: true in the place of len: 0
NotFoundForLenZero(exp) == [exp EXCEPT !.Len = <<>>, !.NotFound = TRUE]

\* C17: for an outcome that is not a list (get by name, delete), an
\* expectation with len: 0 evaluates as the same expectation with
\* notfound: true in its place does: the same return value, terminal flag and
\* failures, for every action error and subject.
C17_LenZeroIsNotFound ==
    (/\ EvOver
     /\ EvExpect(LAMBDA exp : exp.Len = <<0>> /\ ~exp.NotFound)
     /\ evin.r.t # "UnstructuredList") =>
        LET other == <<NotFoundForLenZero(evin.exp[1])>>
        IN /\ \A nd \in Choices :
                 Observed(OK(newAssertions(evin.exp, evin.err, evin.r), nd))
                 = Observed(OK(newAssertions(other, evin.err, evin.r), nd))
           /\ \E nd \in Choices :
                 Observed(EvResult)
                 = Observed(OK(newAssertions(other, evin.err, evin.r), nd))

C17_Witness ==
    /\ EvDone
    /\ EvExpect(LAMBDA exp : exp.Len = <<0>> /\ ~exp.NotFound)
    /\ evin.r = NilUnstructured
    /\ evin.err = StatusError(500)
    /\ evok

\* the outcome is a single item: r is a non-nil *Unstructured
EvItemOutcome == evin.r.t = "Unstructured" /\ evin.r.ptr # <<>>

\* the failures matchesOK records for the differences diffs
MatchFailures(diffs) == [i \in 1..Len(diffs) |-> MatchesNotEqual(diffs[i])]

\* C18: for a non-nil single item with matches declared, when the comparator
\* returns, the structural-match check passes if and only if the diff is
\* empty; otherwise OK() returns false, having recorded exactly one failure
\* for each difference, in the order of the diff, and terminal stays false.
C18_MatchesFollowsDiff ==
    [][(/\ evpc = "matchesOK"
        /\ evin.exp[1].Matches # <<>>
        /\ EvItemOutcome
        /\ evpc' # "panic") =>
           \E ord \in KeyOrders :
               LET d == compareResourceToMatchObject(
                            evin.r.ptr[1],
                            matchObjectFromAny(evin.exp[1].Matches[1]), ord)
               IN /\ ~d.panic
                  /\ ev'.failures = ev.failures \o MatchFailures(d.differences)
                  /\ ev'.terminal = ev.terminal
                  /\ ~ev'.terminal
                  /\ IF d.differences = <<>>
                     THEN evpc' = "jsonOK"
                     ELSE evpc' = "done" /\ ~evok']_vars

C18_Witness ==
    /\ EvDone
    /\ EvItemOutcome
    /\ evin.exp # <<>>
    /\ Len(ev.failures) = 2
    /\ \A i \in 1..2 : ev.failures[i].f = "MatchesNotEqual"
    /\ ev.failures[1].diff.fp = <<[key |-> "b"]>>
    /\ ~ev.terminal
    /\ ~evok

\* C26: within one evaluation the terminal flag is never set back to false:
\* no step of OK() clears it, and it is still false whenever a check after the
\* error check starts, jsonOK's assignment of the payload engine's terminal
\* value included.
C26_TerminalMonotonic ==
    [][/\ ev.terminal => ev'.terminal
       /\ evpc' \in {"lenOK", "matchesOK", "jsonOK"} => ~ev'.terminal]_vars

C26_Witness ==
    /\ EvDone
    /\ ev.terminal
    /\ evhanded # <<>>
    /\ ev.failures # <<>>
    /\ ev.failures[1].f = "json"

\* the structural-match check has failed on a single item while a payload
\* descriptor is declared
EvMatchesFailed ==
    /\ EvDone
    /\ EvItemOutcome
    /\ EvExpect(LAMBDA exp : exp.Matches # <<>> /\ exp.JSON # <<>>)
    /\ \E i \in 1..Len(ev.failures) : ev.failures[i].f = "MatchesNotEqual"

\* C27 as the specification words it: when the structural-match check fails
\* on a single item, the payload check is still evaluated in that evaluation.
C27_ChecksIndependent == EvMatchesFailed => evhanded # <<>>

\* C27: the length, structural-match and payload checks run in this order
\* and OK() returns false at the first that fails: after a length failure or
\* a structural failure the payload engine has not been called and the
\* failures are those of that one check.
C27_ChecksShortCircuit ==
    \A kind \in {"NotEqualLength", "MatchesNotEqual"} :
        (/\ evin.exp # <<>>
         /\ \E i \in 1..Len(ev.failures) : ev.failures[i].f = kind) =>
            /\ evpc = "done"
            /\ ~evok
            /\ evhanded = <<>>
            /\ \A i \in 1..Len(ev.failures) : ev.failures[i].f = kind

C27_Witness ==
    /\ EvMatchesFailed
    /\ evhanded = <<>>
    /\ ~evok

\* C32: an ExpectedNotFound failure is recorded only by evaluations whose
\* expectation expects absence (notfound: true or len: 0) and whose outcome
\* was neither a 404 answer nor an empty list.
C32_ExpectedNotFoundNeedsAbsence ==
    (/\ EvOver
     /\ \E i \in 1..Len(ev.failures) : ev.failures[i].f = "ExpectedNotFound")
    => (/\ EvExpectsAbsence
        /\ evin.err # StatusError(StatusNotFound)
        /\ evin.r # UnstructuredList(<<>>))

\* C34: an evaluation whose expectation declares matches passes only if the
\* comparator ran against a non-nil single item and returned an empty diff;
\* a 404 answer (nil item) with matches declared and absence not expected
\* does not pass.  Stated for the outcomes of a get by name: an item and no
\* error, or an error and a nil item.
C34_MatchesNeedsItem ==
    (/\ EvDone
     /\ evok
     /\ [err |-> evin.err, r |-> evin.r] \in ObjectOutcomes
     /\ EvExpect(LAMBDA exp : exp.Matches # <<>>))
    => (/\ EvItemOutcome
        /\ \E ord \in KeyOrders :
              LET d == compareResourceToMatchObject(
                           evin.r.ptr[1],
                           matchObjectFromAny(evin.exp[1].Matches[1]), ord)
              IN ~d.panic /\ d.differences = <<>>)

\* C35: when OK() has returned on a fresh assertions object: true implies
\* that no failure is recorded and terminal is false; terminal implies that
\* OK() returned false and that a failure is recorded; and false from the
\* error, length or structural-match check (the payload engine was not
\* called) implies that a failure is recorded.
C35_ResultConsistent ==
    EvDone =>
        /\ evok => (ev.failures = <<>> /\ ~ev.terminal)
        /\ ev.terminal => (~evok /\ ev.failures # <<>>)
        /\ (~evok /\ evhanded = <<>>) => ev.failures # <<>>

\* a length check that failed, without being terminal
C35_Witness ==
    /\ EvDone
    /\ ~evok
    /\ ~ev.terminal
    /\ evhanded = <<>>
    /\ Len(ev.failures) = 1
    /\ ev.failures[1].f = "NotEqualLength"

\* C40: whenever the payload check runs (a payload descriptor is declared and
\* the subject is a non-nil item or list), the bytes handed to the payload
\* assertion engine are the serialization of the subject, never no bytes.
C40_PayloadBytes ==
    (EvOver /\ evhanded # <<>>) =>
        /\ evhanded[1] # <<>>
        /\ EvItemOutcome => evhanded[1] = <<Marshal(evin.r.ptr[1])>>

----------------------------------------------------------------------------
(* Properties of the errors (ErrSpec).                                     *)

\* the sentinel the claim names for a constructor: its own
OwnSentinel(c) ==
    CASE c = "KubeConfigNotFound" -> ErrKubeConfigNotFound
      [] c = "InvalidResourceSpecifier" -> ErrResourceSpecifierInvalid
      [] c = "InvalidResourceSpecifierOrFilepath" ->
            ErrResourceSpecifierInvalidOrFilepath
      [] c = "ResourceUnknown" -> ErrResourceUnknown
      [] c = "ExpectedNotFound" -> ErrExpectedNotFound
      [] c \in {"MatchesInvalid", "MatchesInvalidUnmarshalError"} ->
            ErrMatchesInvalid
      [] c = "MatchesNotEqual" -> ErrMatchesNotEqual

\* the base class the claim names for a constructor
BaseClass(c) ==
    IF c \in {"ResourceUnknown", "ExpectedNotFound", "MatchesNotEqual"}
    THEN ErrFailure
    ELSE ErrParse

\* C33: the error a constructor of errors.go returns satisfies errors.Is for
\* the constructor's own sentinel and for its base class, ErrParse or
\* ErrFailure; it is neither of them itself, and not of the other class.
C33_ErrorsIs ==
    errout # <<>> =>
        /\ ErrorsIs(errout[1], OwnSentinel(errin.c))
        /\ ErrorsIs(errout[1], BaseClass(errin.c))
        /\ errout[1] # OwnSentinel(errin.c)
        /\ ~ErrorsIs(errout[1],
                     IF BaseClass(errin.c) = ErrParse THEN ErrFailure
                     ELSE ErrParse)

C33_Witness ==
    /\ errout # <<>>
    /\ errin.c = "MatchesInvalidUnmarshalError"
    /\ ErrorsIs(errout[1], ErrMatchesInvalid)
    /\ ErrorsIs(errout[1], ErrParse)

----------------------------------------------------------------------------
(* Properties of the comparator (CompareSpec).                             *)

\* the comparator call has returned or aborted
CmpDone == cmpout # <<>>

\* C19: the comparator is reflexive: comparing a document (nested maps,
\* slices, strings, integers of any width, booleans, nil) against itself
\* returns an empty diff.
C19_Reflexive ==
    (CmpDone /\ cmpin.match = cmpin.subject) => cmpout[1].delta = NoDelta

C19_Witness ==
    /\ CmpDone
    /\ cmpin.match = cmpin.subject
    /\ cmpin.match.t = "map"
    /\ DOMAIN cmpin.match.m = {"a", "b"}
    /\ cmpin.match.m["a"].t = "map"
    /\ cmpin.match.m["b"].t = "slice"
    /\ cmpout[1].delta = NoDelta

RECURSIVE Prune(_, _)
\* the subject without the keys that only it has, at every depth
Prune(subject, match) ==
    CASE subject.t = "map" /\ match.t = "map" ->
           MapDoc([k \in DOMAIN subject.m \cap DOMAIN match.m |->
                      Prune(subject.m[k], match.m[k])])
      [] subject.t = "slice" /\ match.t = "slice"
           /\ Len(subject.l) = Len(match.l) ->
           SliceDoc([i \in 1..Len(subject.l) |->
                        Prune(subject.l[i], match.l[i])])
      [] OTHER -> subject

RECURSIVE PathIn(_, _)
\* the field path fp leads to a value of the document doc
PathIn(fp, doc) ==
    IF fp = <<>> THEN TRUE
    ELSE IF "key" \in DOMAIN Head(fp)
         THEN /\ doc.t = "map"
              /\ Head(fp).key \in DOMAIN doc.m
              /\ PathIn(Tail(fp), doc.m[Head(fp).key])
         ELSE /\ doc.t = "slice"
              /\ Head(fp).idx + 1 \in 1..Len(doc.l)
              /\ PathIn(Tail(fp), doc.l[Head(fp).idx + 1])

\* C20: the comparator is subset-tolerant: the keys that only the subject
\* has produce no difference at any depth, that is, the comparison ends as it
\* does on the subject without them and every difference is at a path of the
\* expected document; an empty expected map gives an empty diff against any
\* map.
C20_SubsetTolerant ==
    (CmpDone /\ cmpin.match.t = "map" /\ cmpin.subject.t = "map") =>
        LET delta == cmpout[1].delta
        IN /\ delta = collectFieldDifferences(
                          <<>>, cmpin.match,
                          Prune(cmpin.subject, cmpin.match), NoDelta,
                          cmpout[1].ord)
           /\ \A i \in 1..Len(delta.differences) :
                 PathIn(delta.differences[i].fp, cmpin.match)
           /\ DOMAIN cmpin.match.m = {} => delta = NoDelta

C20_Witness ==
    /\ CmpDone
    /\ cmpin.match.t = "map"
    /\ cmpin.subject.t = "map"
    /\ DOMAIN cmpin.match.m = {"a"}
    /\ cmpin.match.m["a"].t = "map"
    /\ DOMAIN cmpin.match.m["a"].m = {"a"}
    /\ DOMAIN cmpin.subject.m = {"a", "b"}
    /\ cmpin.subject.m["a"].t = "map"
    /\ DOMAIN cmpin.subject.m["a"].m = {"a", "b"}
    /\ cmpout[1].delta = NoDelta

\* the string s parses, as strconv.Atoi parses, to the integer i
ParsesTo(s, i) == ~Atoi(s).err /\ Atoi(s).v = i

\* C21: an integer expected value against a string actual value gives no
\* difference if and only if the string parses to the same integer, and
\* exactly one difference otherwise; a string expected value against an int
\* actual value of another value gives exactly one difference.
C21_IntegerAgainstString ==
    CmpDone =>
        LET match == cmpin.match
            subject == cmpin.subject
            delta == cmpout[1].delta
        IN /\ (match.t \in {"int", "uint"} /\ subject.t = "string") =>
                 /\ ~delta.panic
                 /\ IF ParsesTo(subject.s, match.i)
                    THEN delta.differences = <<>>
                    ELSE Len(delta.differences) = 1
           /\ (/\ match.t = "string"
               /\ GoType(subject) = "int"
               /\ ~ParsesTo(match.s, subject.i)) =>
                 /\ ~delta.panic
                 /\ Len(delta.differences) = 1

\* C22: a string expected value against an integer actual value of any width
\* or signedness: the comparison returns a diff, which is empty if and only if
\* the string denotes the integer's value.
C22_StringAgainstAnyInteger ==
    (/\ CmpDone
     /\ cmpin.match.t = "string"
     /\ cmpin.subject.t \in {"int", "uint"}) =>
        /\ ~cmpout[1].delta.panic
        /\ cmpout[1].delta.differences = <<>>
               <=> ParsesTo(cmpin.match.s, cmpin.subject.i)

\* the comparison of match with subject returns an empty diff
NoDifference(match, subject) ==
    \E ord \in KeyOrders :
        LET d == collectFieldDifferences(<<>>, match, subject, NoDelta, ord)
        IN ~d.panic /\ d.differences = <<>>

\* C38: the comparison of an integer with a string is symmetric: expected i
\* against actual s gives an empty diff if and only if expected s against
\* actual i does.  Stated for the integers of Go type int, for which both
\* comparisons return.
C38_Symmetric ==
    (/\ CmpDone
     /\ GoType(cmpin.match) = "int"
     /\ cmpin.subject.t = "string") =>
        /\ ~cmpout[1].delta.panic
        /\ cmpout[1].delta.differences = <<>>
               <=> NoDifference(cmpin.subject, cmpin.match)

\* C39: two integers of the same value give no difference whatever their
\* widths and signedness, and two of different values give exactly one
\* 'different values' difference.
C39_IntegersByValue ==
    (/\ CmpDone
     /\ cmpin.match.t \in {"int", "uint"}
     /\ cmpin.subject.t \in {"int", "uint"}) =>
        cmpout[1].delta =
            [differences |->
                 IF cmpin.match.i = cmpin.subject.i
                 THEN <<>>
                 ELSE <<Diff(<<>>, "had different values")>>,
             panic |-> FALSE]

\* the differences of the call at the field path p or below it
DiffsUnder(p) ==
    SelectSeq(cmpout[1].delta.differences,
              LAMBDA d : /\ Len(d.fp) >= Len(p)
                         /\ SubSeq(d.fp, 1, Len(p)) = p)

\* both documents are maps and the call returned
CmpMapsCompared ==
    /\ CmpDone
    /\ cmpin.match.t = "map"
    /\ cmpin.subject.t = "map"
    /\ ~cmpout[1].delta.panic

\* the keys both maps have
CmpCommonKeys == DOMAIN cmpin.match.m \cap DOMAIN cmpin.subject.m

\* two slices of different lengths
LengthsDiffer(m, s) ==
    m.t = "slice" /\ s.t = "slice" /\ Len(m.l) # Len(s.l)

\* C23: when the expected and the actual slice at a path have different
\* lengths, the diff holds exactly one difference at or below that path, the
\* length difference at the path itself: no element is compared, whatever the
\* elements are.
C23_LengthMismatch ==
    /\ (CmpDone /\ LengthsDiffer(cmpin.match, cmpin.subject)) =>
           cmpout[1].delta =
               [differences |-> <<Diff(<<>>, "had different lengths")>>,
                panic |-> FALSE]
    /\ CmpMapsCompared =>
           \A k \in CmpCommonKeys :
               LengthsDiffer(cmpin.match.m[k], cmpin.subject.m[k]) =>
                   DiffsUnder(<<[key |-> k]>>)
                   = <<Diff(<<[key |-> k]>>, "had different lengths")>>

C23_Witness ==
    /\ CmpMapsCompared
    /\ "a" \in CmpCommonKeys
    /\ cmpin.match.m["a"] = SliceDoc(<<IntDoc("int64", 2), StrDoc(<<"x">>)>>)
    /\ cmpin.subject.m["a"] = SliceDoc(<<IntDoc("int64", 1)>>)
    /\ Len(cmpout[1].delta.differences) = 1

\* C24: when the expected and the actual value at a path have non-comparable
\* types, the diff holds exactly one difference at or below that path, the
\* 'non-comparable types' difference at the path itself: the comparator does
\* not descend into the values.
C24_NonComparable ==
    /\ (CmpDone /\ ~typesComparable(cmpin.match, cmpin.subject)) =>
           cmpout[1].delta =
               [differences |-> <<Diff(<<>>, "non-comparable types")>>,
                panic |-> FALSE]
    /\ CmpMapsCompared =>
           \A k \in CmpCommonKeys :
               ~typesComparable(cmpin.match.m[k], cmpin.subject.m[k]) =>
                   DiffsUnder(<<[key |-> k]>>)
                   = <<Diff(<<[key |-> k]>>, "non-comparable types")>>

C24_Witness ==
    /\ CmpMapsCompared
    /\ "a" \in CmpCommonKeys
    /\ cmpin.match.m["a"].t = "map"
    /\ DOMAIN cmpin.match.m["a"].m = {"a", "b"}
    /\ cmpin.subject.m["a"] = IntDoc("int64", 1)
    /\ cmpout[1].delta.differences
           = <<Diff(<<[key |-> "a"]>>, "non-comparable types")>>

\* what the expected key k adds to the diff on its own
KeyDifferences(k) ==
    IF k \notin DOMAIN cmpin.subject.m
    THEN <<Diff(<<[key |-> k]>>, "not present in subject")>>
    ELSE collectFieldDifferences(
             <<[key |-> k]>>, cmpin.match.m[k], cmpin.subject.m[k], NoDelta,
             cmpout[1].ord).differences

RECURSIVE AllKeyDifferences(_)
\* what the expected keys ks add, one after the other
AllKeyDifferences(ks) ==
    IF ks = <<>> THEN <<>>
    ELSE KeyDifferences(Head(ks)) \o AllKeyDifferences(Tail(ks))

\* C25: for two maps every expected key is examined, whatever the earlier
\* keys added: a key the subject lacks adds exactly one 'not present in
\* subject' difference, and the diff is made of the differences of all the
\* expected keys, in the order the keys were ranged over.
C25_AllKeysExamined ==
    CmpMapsCompared =>
        cmpout[1].delta.differences =
            AllKeyDifferences(
                SelectSeq(cmpout[1].ord,
                          LAMBDA k : k \in DOMAIN cmpin.match.m))

C25_Witness ==
    /\ CmpMapsCompared
    /\ DOMAIN cmpin.match.m = {"a", "b"}
    /\ DOMAIN cmpin.subject.m = {"b"}
    /\ cmpout[1].ord = <<"a", "b">>
    /\ Len(cmpout[1].delta.differences) = 2
    /\ cmpout[1].delta.differences[1]
           = Diff(<<[key |-> "a"]>>, "not present in subject")
    /\ cmpout[1].delta.differences[2].fp = <<[key |-> "b"]>>

----------------------------------------------------------------------------
(* Properties of the runs (Spec, LiveSpec).                                *)

\* the test spec is a get (runGet)
IsGet == kube.action = "get"

\* the last attempt's evaluation neither passed nor was terminal
LastNeither == ~last[1].ok /\ ~asserts[1].terminal

\* C1: in runGet's poll loop the loop goes back to wait for the next tick
\* after an attempt if and only if the attempt's evaluation neither passed nor
\* was terminal, and a get or list is invoked only when no earlier attempt
\* passed or was terminal.
C1_PollWhileNeither ==
    [][/\ (IsGet /\ pc = "attempt" /\ pc' \in {"poll", "done"})
            => ((pc' = "poll") <=> LastNeither')
       /\ (IsGet /\ Len(calls') > Len(calls) /\ last # <<>>)
            => LastNeither]_vars

C1_Witness ==
    /\ IsGet
    /\ pc = "done"
    /\ Len(calls) = 2
    /\ asserts[1].terminal

\* C2: when runGet returns after its poll loop, the failures it has reported
\* are exactly the failures of the last attempt's evaluation, so nothing is
\* reported when the last attempt passed.
C2_ReportsLastAttempt ==
    (IsGet /\ pc = "done" /\ last # <<>>) =>
        /\ reported = asserts[1].failures
        /\ last[1].ok => reported = <<>>

C2_Witness ==
    /\ IsGet
    /\ pc = "done"
    /\ Len(calls) = 2
    /\ last[1].ok
    /\ reported = <<>>

\* C4: when the evaluation of a kind resolution fails, its failures are
\* reported, the run ends, and no remote call is made for that kind: none for
\* the object being processed, and for runGet no tick is taken.
C4_FailedResolutionEndsRun ==
    (gvr # <<>> /\ ~gvr[1].ok) =>
        /\ pc = "done"
        /\ asserts[1].failures # <<>>
        /\ Len(reported) >= Len(asserts[1].failures)
        /\ SubSeq(reported, Len(reported) - Len(asserts[1].failures) + 1,
                  Len(reported)) = asserts[1].failures
        /\ \A c \in 1..Len(calls) : calls[c].gvr.ok /\ calls[c].obj < idx
        /\ IsGet => (calls = <<>> /\ attempts = 0 /\ ticker = NoTicker)
        /\ (kube.action = "delete" /\ ~kube.file) => calls = <<>>

C4_Witness ==
    /\ gvr # <<>>
    /\ ~gvr[1].ok
    /\ kube.action = "apply"
    /\ idx = 2
    /\ Len(calls) = 1

\* C10: with notfound: true declared on a get, an attempt in which the get
\* returns an existing item and no error does not pass.
C10_NotFoundNeedsAbsence ==
    (/\ IsGet
     /\ kube.named
     /\ kube.assert # <<>>
     /\ last # <<>>
     /\ kube.assert[1].NotFound
     /\ last[1].out.err = NilErr
     /\ last[1].out.r.ptr # <<>>) => ~last[1].ok

\* asserts holds the evaluation of the outcome of the last remote call
LastEvaluated == last # <<>> /\ gvr # <<>> /\ gvr[1].ok /\ asserts # <<>>

\* C12: whenever a non-empty error substring is declared and the remote call
\* completes with no error, the evaluation of its outcome fails terminally,
\* for every action: get, list, create, apply, delete, delete of a collection.
C12_AbsentErrorFailsTerminally ==
    (/\ LastEvaluated
     /\ kube.assert # <<>>
     /\ kube.assert[1].Error # <<>>
     /\ last[1].out.err = NilErr) =>
        /\ ~last[1].ok
        /\ asserts[1].terminal

\* C28: for a get by name with a timeout and no assertions attached, a
\* not-found answer does not end the polling: after such an attempt runGet has
\* returned only if the timeout has ended.
C28_PollsUntilExists ==
    (/\ IsGet
     /\ kube.named
     /\ kube.assert = <<>>
     /\ kube.ctxDeadline # <<>>
     /\ last # <<>>
     /\ last[1].out.err = StatusError(StatusNotFound)
     /\ pc = "done") => ctxDone

\* the last remote call's evaluation failed without being terminal
LastFailedRetryable ==
    /\ LastEvaluated
     /\ pc # "panic"
     /\ ~last[1].ok
     /\ ~asserts[1].terminal

C30_NoAttemptAfterDeadline ==
    [][(/\ IsGet
        /\ pc = "attempt"
        /\ pc' = "poll"
        /\ ctxDone) => ticker'.state # "send"]_vars

\* C31: runGet gives the ctx the deadline now + defaultGetTimeout exactly when
\* the ctx it was called with has none; a deadline of the caller is kept; the
\* deadline changes at no other step, and ticker.C is closed without
\* ticker.Stop() only when that deadline has passed.
C31_DefaultDeadline ==
    [][/\ (IsGet /\ pc = "start" /\ pc' = "poll") =>
             deadline' = IF kube.ctxDeadline = <<>>
                         THEN <<now + defaultGetTimeout>>
                         ELSE kube.ctxDeadline
       /\ ~(pc = "start" /\ pc' = "poll") => deadline' = deadline
       /\ (ticker'.state = "closed" /\ ~ticker'.stopped) =>
             (deadline' # <<>> /\ now' >= deadline'[1])]_vars

\* a poll session without a deadline of the caller ended by the default one
C31_Witness ==
    /\ IsGet
    /\ kube.ctxDeadline = <<>>
    /\ deadline = <<defaultGetTimeout>>
    /\ ticker.state = "closed"
    /\ ~ticker.stopped
    /\ now >= defaultGetTimeout
    /\ pc = "done"

\* C36: when the kind resolution returned the unknown-kind error, no remote
\* call is made for that kind, whether or not unknown: true is declared.
C36_UnknownKindNoCall ==
    \A i \in 1..Len(calls) : calls[i].gvr.err # ResourceUnknown

\* a create, an apply or a delete of the objects of a manifest file
IsManifest == kube # <<>> /\ kube.action # "get" /\ kube.file

\* C37: the objects of a manifest are processed in manifest order, each with
\* at most one remote call; a failed evaluation of the kind resolution of
\* object i ends the run with no call for object i or a later one; a failed
\* evaluation of the outcome of object i's call is reported and the next
\* object is processed.
C37_ManifestOrder ==
    IsManifest =>
        /\ \A i \in 1..Len(calls) : calls[i].obj = i
        /\ Len(calls) <= kube.n
        /\ (gvr # <<>> /\ ~gvr[1].ok) =>
               /\ pc = "done"
               /\ Len(calls) = idx - 1
               /\ \A i \in 1..Len(calls) : calls[i].obj < idx
        /\ (/\ calls # <<>>
            /\ gvr[1].ok
            /\ pc # "panic"
            /\ ~last[1].ok) =>
               /\ Len(reported) >= Len(asserts[1].failures)
               /\ SubSeq(reported,
                         Len(reported) - Len(asserts[1].failures) + 1,
                         Len(reported)) = asserts[1].failures
               /\ IF Len(calls) < kube.n
                  THEN pc = "objs" /\ idx = Len(calls) + 1
                  ELSE pc = "done"

\* the first object's call failed and the second object was processed
C37_Witness ==
    /\ IsManifest
    /\ kube.action = "apply"
    /\ kube.n = 2
    /\ Len(calls) = 2
    /\ calls[2].obj = 2
    /\ reported # <<>>
    /\ last[1].ok
    /\ pc = "done"

\* runGet is blocked: it waits for a tick that the ticker will never offer
\* because the timer has not fired, ctx is not done and the clock has stopped
Blocked ==
    /\ pc = "poll"
    /\ ticker.state = "timer"
    /\ now < ticker.at
    /\ ~ctxDone
    /\ now = MaxTime

\* C3: runGet terminates whatever the API server answers: it is never
\* blocked and never aborted, so that it returns, at the latest when the
\* deadline has elapsed and the ticker has closed its channel; it has then
\* reported the failures of the last attempt.
C3_RunGetReturns ==
    IsGet =>
        /\ ~Blocked
        /\ pc # "panic"
        /\ pc = "done" =>
               /\ ret = "nil"
               /\ last # <<>> => reported = asserts[1].failures

\* runGet is never blocked: short of a panic in the evaluation it returns
RunGetNeverBlocked == IsGet => ~Blocked

\* every step of a run increases this measure, so no run goes on forever
Progress ==
    LET pcRank == CASE pc \in {"start", "attempt"} -> 0
                    [] pc \in {"poll", "objs"} -> 1
                    [] OTHER -> 2
        tickerRank == CASE ticker.state = "none" -> 0
                        [] ticker.state = "next" -> 1
                        [] ticker.state = "timer" -> 2
                        [] ticker.state = "send" -> 3
                        [] OTHER -> 4
    IN now + 4 * attempts + idx + pcRank + tickerRank

RunsProgress == [][Progress' > Progress]_vars

====
